---- MODULE Spec2Model ----
(***************************************************************************)
(* Model of the two scripts that query the Quran word bounds database:     *)
(*   src/example_usage.py     five lookups, each opening its own handle    *)
(*   src/explore_database.py  main(): one handle, a sequence of reports    *)
(* The database file, its two tables and the sqlite3 connection semantics  *)
(* the scripts rely on are part of the state.                              *)
(***************************************************************************)
EXTENDS Integers, Sequences, FiniteSets, TLC

VARIABLES
    file,          \* the file quran_word_bounds.sqlite on disk
    word_bounds,   \* rows of table word_bounds
    glyph_bounds,  \* rows of table glyph_bounds
    open,          \* number of sqlite3 connections opened and not closed
    ret,           \* outcome of the last example_usage lookup
    pc,            \* position of explore_database.main
    out,           \* what explore_database.main has printed, section by section
    exit_code,     \* exit status of explore_database.main, -1 while not exited
    first_word,    \* explore_database.main's local first_word
    positions      \* rows printed by the last find_word_positions

vars == <<file, word_bounds, glyph_bounds, open, ret, pc, out, exit_code,
          first_word, positions>>

store == <<file, word_bounds, glyph_bounds>>
mainvars == <<pc, out, exit_code, first_word, positions>>

-----------------------------------------------------------------------------
(* Bounds of the model *)

\* most rows table word_bounds holds
MaxWordRows == 3

\* most rows table glyph_bounds holds
MaxGlyphRows == 2

\* most connections left open before the model stops opening new ones
MaxOpen == 2

(* Value domains of the columns and of the query parameters *)
Pages == {1, 2}
XCoords == 0 .. 1
YCoords == 0 .. 1
Suras == {1, 2}
Ayahs == {1, 2}
WordPositions == 1 .. 3
Words == {"w1", "w2"}
Lines == {1, 2}
LineTypes == {"ayah", "sura_name"}

-----------------------------------------------------------------------------
(* Rows *)

WordRow(p, s, a, k, w, x0, x1, y0, y1) ==
    [page_number |-> p, sura_number |-> s, ayah_number |-> a,
     word_position |-> k, arabic_word |-> w,
     min_x |-> x0, max_x |-> x1, min_y |-> y0, max_y |-> y1]

GlyphRow(p, l, lp, t, x0, x1, y0, y1) ==
    [page_number |-> p, line_number |-> l, line_position |-> lp,
     line_type |-> t, min_x |-> x0, max_x |-> x1, min_y |-> y0, max_y |-> y1]

\* Python's None
None == [py_none |-> TRUE]

-----------------------------------------------------------------------------
(* What sqlite3 does with a SELECT *)

RECURSIVE LexLess(_, _)
\* a < b for two tuples of integers of the same length, column by column
LexLess(a, b) ==
    IF a = <<>> \/ b = <<>> THEN FALSE
    ELSE IF Head(a) # Head(b) THEN Head(a) < Head(b)
    ELSE LexLess(Tail(a), Tail(b))

Perms(n) == {f \in [1 .. n -> 1 .. n] : \A i, j \in 1 .. n : i # j => f[i] # f[j]}

\* the rows a sequence holds
Rows(table) == {table[i] : i \in DOMAIN table}

\* WHERE: the rows of a table that are among those the condition selects
Where(table, selected) == SelectSeq(table, LAMBDA r : r \in selected)

\* A SELECT without ORDER BY: the rows in an order the engine chooses.
Unordered(rows) ==
    {[i \in 1 .. Len(rows) |-> rows[f[i]]] : f \in Perms(Len(rows))}

\* key maps each row to the tuple of its sort columns
Ascending(rows, key) ==
    \A i \in 1 .. Len(rows) - 1 : ~LexLess(key[rows[i + 1]], key[rows[i]])

\* ORDER BY: every arrangement of rows that ascends in Key; rows with equal
\* keys come in whatever order the engine produces them.
OrderBy(rows, key) == {s \in Unordered(rows) : Ascending(s, key)}

\* the SELECT list applied to each row: columns maps a row to its result row
Project(rows, columns) == [i \in DOMAIN rows |-> columns[rows[i]]]

SetMin(S) == CHOOSE x \in S : \A y \in S : x <= y
SetMax(S) == CHOOSE x \in S : \A y \in S : x >= y

-----------------------------------------------------------------------------
(* sqlite3.connect and the first statement on a connection *)

\* sqlite3.connect raises only when the path cannot be opened at all
ConnectRaises == file = "unopenable"

\* sqlite3.connect creates the database file when there is none
FileAfterConnect == IF file = "missing" THEN "empty" ELSE file

\* the exception a statement on the two tables raises, "" when it runs
QueryError(f) ==
    CASE f = "corrupt" -> "DatabaseError"
      [] f = "empty" -> "OperationalError"
      [] OTHER -> ""

\* One lookup of example_usage.py: connect, cursor, execute, fetch, close.
\* conn.close() is a plain statement after the fetch: an exception raised by
\* execute leaves the function before it.
Lookup(op, args, Results) ==
    /\ open < MaxOpen
    /\ IF ConnectRaises
         THEN /\ ret' = [op |-> op, args |-> args, status |-> "raised",
                         error |-> "OperationalError"]
              /\ UNCHANGED <<file, open>>
         ELSE IF QueryError(FileAfterConnect) # ""
         THEN /\ file' = FileAfterConnect
              /\ open' = open + 1
              /\ ret' = [op |-> op, args |-> args, status |-> "raised",
                         error |-> QueryError(FileAfterConnect)]
         ELSE /\ \E v \in Results :
                    ret' = [op |-> op, args |-> args, status |-> "returned",
                            value |-> v]
              /\ UNCHANGED <<file, open>>
    /\ UNCHANGED <<word_bounds, glyph_bounds, mainvars>>

-----------------------------------------------------------------------------
(* highlight_words_in_area *)

\* InArea with "max_x <= ?" written as "min_x <= ?": overlap instead of containment
InAreaOverlap(r, x1, y1, x2, y2, page_num) ==
    /\ r.page_number = page_num
    /\ r.min_x >= x1 /\ r.min_x <= x2
    /\ r.min_y >= y1 /\ r.max_y <= y2

InArea(r, x1, y1, x2, y2, page_num) ==
    /\ r.page_number = page_num
    /\ r.min_x >= x1 /\ r.max_x <= x2
    /\ r.min_y >= y1 /\ r.max_y <= y2

AreaOrder(r) == <<r.min_y, r.min_x>>

AreaColumns(r) ==
    [arabic_word |-> r.arabic_word, min_x |-> r.min_x, max_x |-> r.max_x,
     min_y |-> r.min_y, max_y |-> r.max_y,
     sura_number |-> r.sura_number, ayah_number |-> r.ayah_number]

highlight_words_in_area(x1, y1, x2, y2, page_num) ==
    Lookup("highlight_words_in_area",
           [x1 |-> x1, y1 |-> y1, x2 |-> x2, y2 |-> y2, page_num |-> page_num],
           {Project(rows, [r \in Rows(word_bounds) |-> AreaColumns(r)]) :
               rows \in OrderBy(Where(word_bounds,
                                      {r \in Rows(word_bounds) :
                                          InArea(r, x1, y1, x2, y2, page_num)}),
                                [r \in Rows(word_bounds) |-> AreaOrder(r)])})

-----------------------------------------------------------------------------
(* word_click_handler *)

\* AtPoint with the left edge excluded
AtPointStrict(r, x, y, page_num) ==
    /\ r.page_number = page_num
    /\ x > r.min_x /\ x <= r.max_x
    /\ y >= r.min_y /\ y <= r.max_y

AtPoint(r, x, y, page_num) ==
    /\ r.page_number = page_num
    /\ x >= r.min_x /\ x <= r.max_x
    /\ y >= r.min_y /\ y <= r.max_y

ClickColumns(r) ==
    [arabic_word |-> r.arabic_word, sura_number |-> r.sura_number,
     ayah_number |-> r.ayah_number, word_position |-> r.word_position,
     min_x |-> r.min_x, max_x |-> r.max_x, min_y |-> r.min_y, max_y |-> r.max_y]

\* cursor.fetchone(): the first row of the result, None when it has none
FetchOne(rows) == IF rows = <<>> THEN None ELSE rows[1]

\* "if word: ... return word / else: ... return None"
ClickReturn(word) == IF word # None THEN word ELSE None

word_click_handler(x, y, page_num) ==
    Lookup("word_click_handler",
           [x |-> x, y |-> y, page_num |-> page_num],
           {ClickReturn(FetchOne(Project(rows, [r \in Rows(word_bounds) |-> ClickColumns(r)]))) :
               rows \in Unordered(Where(word_bounds,
                                        {r \in Rows(word_bounds) :
                                            AtPoint(r, x, y, page_num)}))})

-----------------------------------------------------------------------------
(* get_ayah_words *)

InAyah(r, sura_num, ayah_num) ==
    r.sura_number = sura_num /\ r.ayah_number = ayah_num

\* AyahOrder by the wrong column
AyahOrderByPage(r) == <<r.page_number>>

AyahOrder(r) == <<r.word_position>>

AyahColumns(r) ==
    [arabic_word |-> r.arabic_word, word_position |-> r.word_position,
     min_x |-> r.min_x, max_x |-> r.max_x, min_y |-> r.min_y, max_y |-> r.max_y,
     page_number |-> r.page_number]

get_ayah_words(sura_num, ayah_num) ==
    Lookup("get_ayah_words",
           [sura_num |-> sura_num, ayah_num |-> ayah_num],
           {Project(rows, [r \in Rows(word_bounds) |-> AyahColumns(r)]) :
               rows \in OrderBy(Where(word_bounds,
                                      {r \in Rows(word_bounds) :
                                          InAyah(r, sura_num, ayah_num)}),
                                [r \in Rows(word_bounds) |-> AyahOrder(r)])})

-----------------------------------------------------------------------------
(* find_word_occurrences *)

IsWord(r, arabic_word) == r.arabic_word = arabic_word

OccurrenceOrder(r) ==
    <<r.page_number, r.sura_number, r.ayah_number, r.word_position>>

OccurrenceColumns(r) ==
    [page_number |-> r.page_number, sura_number |-> r.sura_number,
     ayah_number |-> r.ayah_number, word_position |-> r.word_position,
     min_x |-> r.min_x, max_x |-> r.max_x, min_y |-> r.min_y, max_y |-> r.max_y]

find_word_occurrences(arabic_word) ==
    Lookup("find_word_occurrences",
           [arabic_word |-> arabic_word],
           {Project(rows, [r \in Rows(word_bounds) |-> OccurrenceColumns(r)]) :
               rows \in OrderBy(Where(word_bounds,
                                      {r \in Rows(word_bounds) : IsWord(r, arabic_word)}),
                                [r \in Rows(word_bounds) |-> OccurrenceOrder(r)])})

-----------------------------------------------------------------------------
(* get_page_layout *)

OnPage(r, page_num) == r.page_number = page_num

\* GROUP BY line_number, line_type: the distinct pairs among the rows
LineGroups(rows) == {<<rows[i].line_number, rows[i].line_type>> : i \in DOMAIN rows}

\* LineSummary with the box of the group's first glyph instead of the union
LineSummaryFirst(rows, g) ==
    LET members == {i \in DOMAIN rows :
                        rows[i].line_number = g[1] /\ rows[i].line_type = g[2]}
        first == rows[SetMin(members)]
    IN  [line_number |-> g[1], line_type |-> g[2],
         glyph_count |-> Cardinality(members),
         top |-> first.min_y, bottom |-> first.max_y,
         left |-> first.min_x, right |-> first.max_x]

\* the aggregates of one group
LineSummary(rows, g) ==
    LET members == {i \in DOMAIN rows :
                        rows[i].line_number = g[1] /\ rows[i].line_type = g[2]}
    IN  [line_number |-> g[1], line_type |-> g[2],
         glyph_count |-> Cardinality(members),
         top |-> SetMin({rows[i].min_y : i \in members}),
         bottom |-> SetMax({rows[i].max_y : i \in members}),
         left |-> SetMin({rows[i].min_x : i \in members}),
         right |-> SetMax({rows[i].max_x : i \in members})]

LineOrder(r) == <<r.line_number>>

\* the sequences that list each member of a set once
Arrangements(S) ==
    {s \in [1 .. Cardinality(S) -> S] :
        \A i, j \in 1 .. Cardinality(S) : i # j => s[i] # s[j]}

get_page_layout(page_num) ==
    Lookup("get_page_layout",
           [page_num |-> page_num],
           LET rows == Where(glyph_bounds,
                             {r \in Rows(glyph_bounds) : OnPage(r, page_num)})
               groups == {LineSummary(rows, g) : g \in LineGroups(rows)}
           IN  {s \in Arrangements(groups) :
                    Ascending(s, [r \in groups |-> LineOrder(r)])})

-----------------------------------------------------------------------------
(* explore_database.py *)

\* the page main() asks statistics for
StatsPage == 2

PositionOrder(r) ==
    <<r.page_number, r.sura_number, r.ayah_number, r.word_position>>

PositionColumns(r) ==
    [page_number |-> r.page_number, sura_number |-> r.sura_number,
     ayah_number |-> r.ayah_number, word_position |-> r.word_position,
     min_x |-> r.min_x, max_x |-> r.max_x, min_y |-> r.min_y, max_y |-> r.max_y]

\* find_word_positions: the lists of rows it may fetch and print
find_word_positions(arabic_word) ==
    {Project(rows, [r \in Rows(word_bounds) |-> PositionColumns(r)]) :
        rows \in OrderBy(Where(word_bounds,
                               {r \in Rows(word_bounds) : r.arabic_word = arabic_word}),
                         [r \in Rows(word_bounds) |-> PositionOrder(r)])}

\* "except Exception" and "finally" of main(): the message, the close, and
\* main() returns, so the process ends with status 0
MainCatches(printed) ==
    /\ out' = out \o printed \o <<"error">>
    /\ open' = open - 1
    /\ pc' = "exited"
    /\ exit_code' = 0
    /\ UNCHANGED <<first_word, positions>>

\* a report step that ran to its end
MainGoes(printed, next) ==
    /\ out' = out \o printed
    /\ pc' = next
    /\ UNCHANGED <<open, exit_code, first_word, positions>>

\* main() up to "cursor = conn.cursor()", connect_db included
MainConnect ==
    /\ pc \in {"idle", "exited"}
    /\ open < MaxOpen
    /\ first_word' = ""
    /\ positions' = <<>>
    /\ IF ConnectRaises
         THEN /\ out' = <<"banner", "connect_error", "connect_failed">>
              /\ pc' = "exited"
              /\ exit_code' = 1
              /\ UNCHANGED <<file, open>>
         ELSE /\ out' = <<"banner">>
              /\ pc' = "schema"
              /\ exit_code' = -1
              /\ file' = FileAfterConnect
              /\ open' = open + 1
    /\ UNCHANGED <<word_bounds, glyph_bounds, ret>>

\* show_schema reads sqlite_master, which an empty database has too
show_schema ==
    /\ pc = "schema"
    /\ IF file = "corrupt"
         THEN MainCatches(<<"schema">>)
         ELSE MainGoes(<<"schema">>, "summary")
    /\ UNCHANGED <<store, ret>>

show_summary_stats ==
    /\ pc = "summary"
    /\ IF QueryError(file) # ""
         THEN MainCatches(<<"summary">>)
         ELSE MainGoes(<<"summary">>, "sample")
    /\ UNCHANGED <<store, ret>>

show_sample_data ==
    /\ pc = "sample"
    /\ IF QueryError(file) # ""
         THEN MainCatches(<<"sample">>)
         ELSE MainGoes(<<"sample">>, "page")
    /\ UNCHANGED <<store, ret>>

show_page_stats(page_num) ==
    /\ pc = "page"
    /\ IF QueryError(file) # ""
         THEN MainCatches(<<"page">>)
         ELSE MainGoes(<<"page">>, "find")
    /\ UNCHANGED <<store, ret>>

\* "SELECT arabic_word ... LIMIT 1", fetchone()[0], find_word_positions
MainFindWord ==
    /\ pc = "find"
    /\ IF QueryError(file) # "" \/ word_bounds = <<>>
         THEN MainCatches(<<>>)
         ELSE /\ \E rows \in Unordered(word_bounds) :
                    /\ first_word' = rows[1].arabic_word
                    /\ positions' \in find_word_positions(rows[1].arabic_word)
              /\ out' = out \o <<"positions">>
              /\ pc' = "examples"
              /\ UNCHANGED <<open, exit_code>>
    /\ UNCHANGED <<store, ret>>

\* show_example_queries, the closing prints, "finally: conn.close()"
MainFinish ==
    /\ pc = "examples"
    /\ out' = out \o <<"examples", "dbfile">>
    /\ open' = open - 1
    /\ pc' = "exited"
    /\ exit_code' = 0
    /\ UNCHANGED <<store, ret, first_word, positions>>

MainStep ==
    \/ MainConnect
    \/ show_schema
    \/ show_summary_stats
    \/ show_sample_data
    \/ show_page_stats(StatsPage)
    \/ MainFindWord
    \/ MainFinish

-----------------------------------------------------------------------------
(* Tables the checks start from *)

\* a rank for each text, to put the rows of a table in one canonical order
TextRank(w) == IF w \in {"w1", "ayah"} THEN 1 ELSE 2

WordKey(r) ==
    <<r.page_number, r.sura_number, r.ayah_number, r.word_position,
      TextRank(r.arabic_word), r.min_x, r.max_x, r.min_y, r.max_y>>

GlyphKey(r) ==
    <<r.page_number, r.line_number, r.line_position, TextRank(r.line_type),
      r.min_x, r.max_x, r.min_y, r.max_y>>

\* A table is a bag of rows: one representative per bag, at most MaxRows rows
Tables(Universe, key, MaxRows) ==
    {t \in UNION {[1 .. n -> Universe] : n \in 0 .. MaxRows} : Ascending(t, key)}

\* the boxes a row may have: min_x <= max_x and min_y <= max_y
Boxes ==
    {b \in [min_x : XCoords, max_x : XCoords, min_y : YCoords, max_y : YCoords] :
        b.min_x <= b.max_x /\ b.min_y <= b.max_y}

RegionRows ==
    {WordRow(p, 1, 1, 1, "w1", b.min_x, b.max_x, b.min_y, b.max_y) :
        p \in Pages, b \in Boxes}

Idle ==
    /\ open = 0
    /\ ret = [op |-> "none", status |-> "none"]
    /\ pc = "idle"
    /\ out = <<>>
    /\ exit_code = -1
    /\ first_word = ""
    /\ positions = <<>>

InitRegion ==
    /\ file = "ok"
    /\ word_bounds \in Tables(RegionRows, [r \in RegionRows |-> WordKey(r)], MaxWordRows)
    /\ glyph_bounds = <<>>
    /\ Idle

NextRegion ==
    \E x1 \in XCoords, x2 \in XCoords, y1 \in YCoords, y2 \in YCoords, p \in Pages :
        highlight_words_in_area(x1, y1, x2, y2, p)

SpecRegion == InitRegion /\ [][NextRegion]_vars

NextClick == \E x \in XCoords, y \in YCoords, p \in Pages : word_click_handler(x, y, p)

SpecClick == InitRegion /\ [][NextClick]_vars

AyahRows ==
    {WordRow(p, s, a, k, w, 0, 1, 0, 1) :
        p \in Pages, s \in Suras, a \in Ayahs, k \in WordPositions, w \in {"w1"}}

InitAyah ==
    /\ file = "ok"
    /\ word_bounds \in Tables(AyahRows, [r \in AyahRows |-> WordKey(r)], MaxWordRows)
    /\ glyph_bounds = <<>>
    /\ Idle

NextAyah == \E s \in Suras, a \in Ayahs : get_ayah_words(s, a)

SpecAyah == InitAyah /\ [][NextAyah]_vars

OccurrenceRows ==
    {WordRow(p, s, a, k, w, x, x, 0, 0) :
        p \in Pages, s \in Suras, a \in Ayahs, k \in 1 .. 2, w \in Words, x \in XCoords}

InitOccur ==
    /\ file = "ok"
    /\ word_bounds \in Tables(OccurrenceRows, [r \in OccurrenceRows |-> WordKey(r)],
                              MaxWordRows)
    /\ glyph_bounds = <<>>
    /\ Idle

NextOccur ==
    \/ \E w \in Words : find_word_occurrences(w)
    \/ MainStep

SpecOccur == InitOccur /\ [][NextOccur]_vars

GlyphRows ==
    {GlyphRow(p, l, 1, t, b.min_x, b.max_x, b.min_y, b.max_y) :
        p \in Pages, l \in Lines, t \in LineTypes, b \in Boxes}

InitLayout ==
    /\ file = "ok"
    /\ word_bounds = <<>>
    /\ glyph_bounds \in Tables(GlyphRows, [r \in GlyphRows |-> GlyphKey(r)], MaxGlyphRows)
    /\ Idle

NextLayout == \E p \in Pages : get_page_layout(p)

SpecLayout == InitLayout /\ [][NextLayout]_vars

(* The database as the scripts may find it on disk *)
FileStates == {"missing", "unopenable", "corrupt", "empty", "ok"}

SampleWords ==
    <<WordRow(1, 1, 1, 1, "w1", 1, 1, 0, 1),
      WordRow(2, 2, 1, 1, "w1", 0, 1, 0, 0),
      WordRow(2, 2, 1, 2, "w2", 0, 0, 1, 1)>>

SampleGlyphs ==
    <<GlyphRow(2, 1, 1, "ayah", 0, 0, 0, 0),
      GlyphRow(2, 1, 2, "ayah", 1, 1, 0, 0),
      GlyphRow(2, 2, 1, "ayah", 0, 0, 1, 1)>>

Init ==
    /\ file \in FileStates
    /\ word_bounds \in (IF file = "ok" THEN {<<>>, SampleWords} ELSE {<<>>})
    /\ glyph_bounds = (IF file = "ok" THEN SampleGlyphs ELSE <<>>)
    /\ Idle

Next ==
    \/ \E x1 \in XCoords, x2 \in XCoords, y1 \in YCoords, y2 \in YCoords, p \in Pages :
          highlight_words_in_area(x1, y1, x2, y2, p)
    \/ \E x \in XCoords, y \in YCoords, p \in Pages : word_click_handler(x, y, p)
    \/ \E s \in Suras, a \in Ayahs : get_ayah_words(s, a)
    \/ \E w \in Words : find_word_occurrences(w)
    \/ \E p \in Pages : get_page_layout(p)
    \/ MainStep

Spec == Init /\ [][Next]_vars

-----------------------------------------------------------------------------
(* Properties *)

\* the returned record v shows the stored row r: every column of v is r's
Shows(v, r) == \A c \in DOMAIN v : v[c] = r[c]

\* how many times x occurs in the sequence s
Count(s, x) == Cardinality({i \in DOMAIN s : s[i] = x})

\* the sequence v lists, once each, the rows of table at the indices in I
ListsExactly(v, table, I) ==
    /\ Len(v) = Cardinality(I)
    /\ \A k \in DOMAIN v :
          Count(v, v[k]) = Cardinality({i \in I : Shows(v[k], table[i])})

Contained(r, a) ==
    /\ r.min_x >= a.x1 /\ r.max_x <= a.x2
    /\ r.min_y >= a.y1 /\ r.max_y <= a.y2

Overlaps(r, a) ==
    /\ r.min_x <= a.x2 /\ r.max_x >= a.x1
    /\ r.min_y <= a.y2 /\ r.max_y >= a.y1

\* C1: highlight_words_in_area returns, without an error, exactly the rows of
\* the page that lie fully inside the box (none of another page, none that
\* only overlaps the box, none missing), in ascending (min_y, min_x) order;
\* the empty sequence when there is none.
C1_RegionExact ==
    ret.op = "highlight_words_in_area" =>
        /\ ret.status = "returned"
        /\ ListsExactly(ret.value, word_bounds,
                        {i \in DOMAIN word_bounds :
                            /\ word_bounds[i].page_number = ret.args.page_num
                            /\ Contained(word_bounds[i], ret.args)})
        /\ \A i, j \in DOMAIN ret.value :
              i < j => \/ ret.value[i].min_y < ret.value[j].min_y
                       \/ /\ ret.value[i].min_y = ret.value[j].min_y
                          /\ ret.value[i].min_x <= ret.value[j].min_x

\* C1 witness: two rows returned in min_x order on one min_y, while the page
\* holds a third row that overlaps the box without lying inside it
C1_Witness ==
    /\ ret.op = "highlight_words_in_area"
    /\ ret.status = "returned"
    /\ Len(ret.value) = 2
    /\ ret.value[1].min_y = ret.value[2].min_y
    /\ ret.value[1].min_x < ret.value[2].min_x
    /\ \E i \in DOMAIN word_bounds :
          /\ word_bounds[i].page_number = ret.args.page_num
          /\ Overlaps(word_bounds[i], ret.args)
          /\ ~Contained(word_bounds[i], ret.args)

HitAt(r, a) ==
    /\ r.page_number = a.page_num
    /\ r.min_x <= a.x /\ a.x <= r.max_x
    /\ r.min_y <= a.y /\ a.y <= r.max_y

\* C2: word_click_handler returns a word only if it is on the page and its
\* box holds the point, edges included, and returns None exactly when no word
\* of the page holds the point.
C2_HitTest ==
    ret.op = "word_click_handler" =>
        /\ ret.status = "returned"
        /\ (ret.value = None) <=>
              ~ \E i \in DOMAIN word_bounds : HitAt(word_bounds[i], ret.args)
        /\ ret.value # None =>
              \E i \in DOMAIN word_bounds :
                  /\ HitAt(word_bounds[i], ret.args)
                  /\ Shows(ret.value, word_bounds[i])

\* C2 witness: a hit on the left edge of the returned word, with a second
\* word of the page holding the point too and a third starting one pixel
\* to the right of it
C2_Witness ==
    /\ ret.op = "word_click_handler"
    /\ ret.status = "returned"
    /\ ret.value # None
    /\ ret.value.min_x = ret.args.x
    /\ Cardinality({i \in DOMAIN word_bounds : HitAt(word_bounds[i], ret.args)}) = 2
    /\ \E i \in DOMAIN word_bounds :
          /\ word_bounds[i].page_number = ret.args.page_num
          /\ word_bounds[i].min_x - 1 = ret.args.x

\* C2 witness of absence: None for a point one pixel left of a word
C2_WitnessAbsent ==
    /\ ret.op = "word_click_handler"
    /\ ret.status = "returned"
    /\ ret.value = None
    /\ \E i \in DOMAIN word_bounds :
          /\ word_bounds[i].page_number = ret.args.page_num
          /\ word_bounds[i].min_x - 1 = ret.args.x
          /\ word_bounds[i].min_y <= ret.args.y /\ ret.args.y <= word_bounds[i].max_y

\* C3: get_ayah_words returns exactly the rows of the (sura, ayah), of every
\* page, in ascending word_position order, contiguous or not.
C3_AyahWords ==
    ret.op = "get_ayah_words" =>
        /\ ret.status = "returned"
        /\ ListsExactly(ret.value, word_bounds,
                        {i \in DOMAIN word_bounds :
                            /\ word_bounds[i].sura_number = ret.args.sura_num
                            /\ word_bounds[i].ayah_number = ret.args.ayah_num})
        /\ \A i, j \in DOMAIN ret.value :
              i < j => ret.value[i].word_position <= ret.value[j].word_position

\* C3 witness: positions 1 and 3 of one ayah returned from two pages, the
\* later page first, with a row of another ayah in the table
C3_Witness ==
    /\ ret.op = "get_ayah_words"
    /\ ret.status = "returned"
    /\ Len(ret.value) = 2
    /\ ret.value[1].word_position = 1
    /\ ret.value[2].word_position = 3
    /\ ret.value[1].page_number > ret.value[2].page_number
    /\ Len(word_bounds) = 3

\* C5: get_page_layout returns one summary per (line_number, line_type) pair
\* among the glyphs of the page, each with the number of glyphs of the pair
\* and the union of their boxes, in ascending line_number order; the empty
\* sequence for a page without glyphs.
C5_PageLayout ==
    ret.op = "get_page_layout" =>
        /\ ret.status = "returned"
        /\ LET on == {i \in DOMAIN glyph_bounds :
                        glyph_bounds[i].page_number = ret.args.page_num}
               In(v) == {i \in on : /\ glyph_bounds[i].line_number = v.line_number
                                    /\ glyph_bounds[i].line_type = v.line_type}
           IN  /\ \A i \in on : \E k \in DOMAIN ret.value : i \in In(ret.value[k])
               /\ \A k, l \in DOMAIN ret.value :
                     k # l => In(ret.value[k]) \cap In(ret.value[l]) = {}
               /\ \A k \in DOMAIN ret.value :
                     LET v == ret.value[k] IN
                     /\ In(v) # {}
                     /\ v.glyph_count = Cardinality(In(v))
                     /\ \A i \in In(v) :
                           /\ v.top <= glyph_bounds[i].min_y
                           /\ v.bottom >= glyph_bounds[i].max_y
                           /\ v.left <= glyph_bounds[i].min_x
                           /\ v.right >= glyph_bounds[i].max_x
                     /\ \E i \in In(v) : v.top = glyph_bounds[i].min_y
                     /\ \E i \in In(v) : v.bottom = glyph_bounds[i].max_y
                     /\ \E i \in In(v) : v.left = glyph_bounds[i].min_x
                     /\ \E i \in In(v) : v.right = glyph_bounds[i].max_x
        /\ \A i, j \in DOMAIN ret.value :
              i < j => ret.value[i].line_number <= ret.value[j].line_number

\* C5 witness: a line of two glyphs whose union box is the box of neither
C5_Witness ==
    /\ ret.op = "get_page_layout"
    /\ ret.status = "returned"
    /\ Len(ret.value) = 1
    /\ ret.value[1].glyph_count = 2
    /\ \A i \in DOMAIN glyph_bounds :
          \/ glyph_bounds[i].min_x # ret.value[1].left
          \/ glyph_bounds[i].max_x # ret.value[1].right

\* C5 witness of order: two lines of one page, summarised in line order
C5_WitnessLines ==
    /\ ret.op = "get_page_layout"
    /\ ret.status = "returned"
    /\ Len(ret.value) = 2
    /\ ret.value[1].line_number < ret.value[2].line_number

\* C6: a region lookup with a malformed box (x1 > x2 or y1 > y2) fails with
\* InvalidArgument instead of returning.
C6_MalformedBoxRejected ==
    (/\ ret.op = "highlight_words_in_area"
     /\ (ret.args.x1 > ret.args.x2 \/ ret.args.y1 > ret.args.y2)) =>
        /\ ret.status = "raised"
        /\ ret.error = "InvalidArgument"

MainRunning == pc \notin {"idle", "exited"}

\* C7: no lookup, and no run of explore_database.main, leaves a connection
\* it opened open, whether it ended normally or with an error.
C7_HandlesReleased == open = (IF MainRunning THEN 1 ELSE 0)

Reports == {"schema", "summary", "sample", "page", "positions", "examples", "dbfile"}

\* C8: with a database that cannot be opened or read, a lookup ends in an
\* error and explore_database.main prints no report and exits with a failure.
C8_UnavailableSurfaces ==
    file # "ok" =>
        /\ ret.status \in {"none", "raised"}
        /\ pc = "exited" =>
              /\ exit_code # 0
              /\ \A i \in DOMAIN out : out[i] \notin Reports

\* C9: no step changes the tables or the database file, its existence included.
C9_StoreNeverMutated ==
    [][/\ file' = file
       /\ word_bounds' = word_bounds
       /\ glyph_bounds' = glyph_bounds]_vars

OccurrenceKeyLeq(a, b) ==
    \/ a.page_number < b.page_number
    \/ /\ a.page_number = b.page_number
       /\ \/ a.sura_number < b.sura_number
          \/ /\ a.sura_number = b.sura_number
             /\ \/ a.ayah_number < b.ayah_number
                \/ /\ a.ayah_number = b.ayah_number
                   /\ a.word_position <= b.word_position

OccurrencesOf(v, w) ==
    /\ ListsExactly(v, word_bounds,
                    {i \in DOMAIN word_bounds : word_bounds[i].arabic_word = w})
    /\ \A i, j \in DOMAIN v : i < j => OccurrenceKeyLeq(v[i], v[j])

MainPrintedPositions == \E i \in DOMAIN out : out[i] = "positions"

\* C4 (selection and order alone): each implementation yields exactly the
\* rows whose arabic_word is the text, ascending in
\* (page_number, sura_number, ayah_number, word_position).
C4_SelectionAndOrder ==
    /\ ret.op = "find_word_occurrences" =>
          /\ ret.status = "returned"
          /\ OccurrencesOf(ret.value, ret.args.arabic_word)
    /\ MainPrintedPositions => OccurrencesOf(positions, first_word)

\* C4: find_word_occurrences and find_word_positions select exactly the rows
\* whose arabic_word is the text, in ascending (page_number, sura_number,
\* ayah_number, word_position) order, and for one text both yield the same
\* rows in the same order.
C4_Occurrences ==
    /\ C4_SelectionAndOrder
    /\ (/\ ret.op = "find_word_occurrences"
        /\ MainPrintedPositions
        /\ ret.args.arabic_word = first_word) => ret.value = positions

\* C10: two calls of find_word_occurrences with one text on one snapshot
\* return the same rows in the same order, rows of equal sort key included.
C10_OrderStable ==
    [][(/\ ret.op = "find_word_occurrences"
        /\ ret'.op = "find_word_occurrences"
        /\ ret'.args = ret.args) => ret'.value = ret.value]_vars

====
